---- MODULE Spec2Model ----
(***************************************************************************)
(* Model of the Transformer 3D viewer: the block layout                    *)
(* (components/TransformerScene.tsx), the selection held by App, and the   *)
(* explanation / chat panel (components/InfoPanel.tsx) with its service    *)
(* client (services/geminiService).                                        *)
(*                                                                         *)
(* Text is a sequence of tokens: a token is one character, or one run of   *)
(* non-ASCII characters of the source rendered in English.  The empty      *)
(* string is <<>>.  Lengths are in hundredths of a scene unit.             *)
(***************************************************************************)
EXTENDS Integers, Sequences, FiniteSets, TLC

VARIABLES
    allBlocks,      \* ALL_BLOCKS, the module-level block sequence
    selectedBlock,  \* App's selectedBlock state: a block or NULL
    explanation,    \* InfoPanel state
    loading,        \* InfoPanel state
    pending,        \* getComponentExplanation calls not yet settled
    explainCalls,   \* number of getComponentExplanation calls made so far
    settled,        \* the getComponentExplanation call that settled last
    aiInstance,     \* service module variable
    chatSession,    \* service module variable
    chatInput,      \* InfoPanel state
    messages,       \* InfoPanel state: the transcript
    isChatting,     \* InfoPanel state
    inflight,       \* sendChatMessage calls awaiting the stream
    submitResult    \* how the latest handleChatSubmit call left the handler

vars == <<allBlocks, selectedBlock, explanation, loading, pending, explainCalls,
          settled, aiInstance, chatSession, chatInput, messages, isChatting,
          inflight, submitResult>>

\* null, comparable with every object of the model
NULL == [null |-> TRUE]

(***************************************************************************)
(* Bounds of the model.                                                    *)
(***************************************************************************)
NumClickable == 2       \* blocks of ALL_BLOCKS the user clicks on
MaxExplainCalls == 2    \* explanation requests issued in one run
MaxSends == 2           \* chat sends accepted in one run
MaxChunks == 2          \* chunks the service yields for one send
MaxInputLen == 1        \* characters typed into the chat input

(***************************************************************************)
(* Layout generator: TransformerScene.tsx                                  *)
(***************************************************************************)
BLOCK_WIDTH == 300
STD_BLOCK_HEIGHT == 80
BLOCK_DEPTH == 300
GAP == 30
THIN_BLOCK_HEIGHT == 50
START_Y == 0 - 450
ENCODER_OFFSET_X == 0 - 250
DECODER_OFFSET_X == 250

\* GAP * 1.5, the spacer before the Nx layers and before the output head
Spacer == (GAP * 3) \div 2

\* `${type}-${id}` without the type prefix
BlockId_NoPrefix(type, id) == id

\* the template literal `${type}-${id}`
BlockId(type, id) == type \o "-" \o id

\* addBlock: push one block at the cursor, advance the cursor
addBlock(st, offsetX, type, id, label, color, height) ==
    [blocks |-> Append(st.blocks,
                  [id |-> BlockId(type, id),
                   label |-> label,
                   type |-> "mechanism",
                   position |-> <<offsetX, st.currentY, 0>>,
                   color |-> color,
                   dimensions |-> <<BLOCK_WIDTH, height, BLOCK_DEPTH>>]),
     currentY |-> st.currentY + height + GAP]

skip(st, dy) == [st EXCEPT !.currentY = @ + dy]

createStack(offsetX, type) ==
    LET s0 == [blocks |-> <<>>, currentY |-> START_Y]
        s1 == addBlock(s0, offsetX, type, "inputs",
                       IF type = "Encoder" THEN "Inputs" ELSE "Outputs (Shifted)",
                       "#475569", STD_BLOCK_HEIGHT)
        s2 == addBlock(s1, offsetX, type, "embedding", "Embedding", "#ec4899", STD_BLOCK_HEIGHT)
        s3 == addBlock(s2, offsetX, type, "pos-enc", "Positional Encoding", "#a855f7", STD_BLOCK_HEIGHT)
        s4 == skip(s3, Spacer)
        s5 == IF type = "Decoder"
              THEN addBlock(addBlock(s4, offsetX, type, "masked-attn",
                                     "Masked Multi-Head Attention", "#f97316", STD_BLOCK_HEIGHT),
                            offsetX, type, "add-norm-1", "Add & Norm", "#eab308", THIN_BLOCK_HEIGHT)
              ELSE s4
        s6 == addBlock(s5, offsetX, type, "attention",
                       IF type = "Encoder" THEN "Multi-Head Attention" ELSE "Cross Attention",
                       "#f97316", STD_BLOCK_HEIGHT)
        s7 == addBlock(s6, offsetX, type, "add-norm-2", "Add & Norm", "#eab308", THIN_BLOCK_HEIGHT)
        s8 == addBlock(s7, offsetX, type, "ffn", "Feed Forward", "#3b82f6", STD_BLOCK_HEIGHT)
        s9 == addBlock(s8, offsetX, type, "add-norm-3", "Add & Norm", "#eab308", THIN_BLOCK_HEIGHT)
        s10 == IF type = "Decoder"
               THEN addBlock(addBlock(addBlock(skip(s9, Spacer),
                        offsetX, type, "linear", "Linear", "#6366f1", STD_BLOCK_HEIGHT),
                        offsetX, type, "softmax", "Softmax", "#10b981", STD_BLOCK_HEIGHT),
                        offsetX, type, "probs", "Output Probabilities", "#475569", STD_BLOCK_HEIGHT)
               ELSE s9
    IN  s10.blocks

ENCODER_BLOCKS == createStack(ENCODER_OFFSET_X, "Encoder")
DECODER_BLOCKS == createStack(DECODER_OFFSET_X, "Decoder")
ALL_BLOCKS == ENCODER_BLOCKS \o DECODER_BLOCKS

\* the blocks a run clicks on
Clickable == {ALL_BLOCKS[i] : i \in 1..NumClickable}

(***************************************************************************)
(* Service client: services/geminiService                                  *)
(***************************************************************************)
\* "No explanation available."  (the text substituted for an empty response)
NO_EXPLANATION == <<"no explanation available">>
\* "Cannot load the explanation. Please check your API key."
LOAD_FAILED == <<"cannot load the explanation, check your API key">>
\* "\n\n(Error: cannot process the message. Please retry.)"
CHAT_ERROR_NOTICE == <<"\n", "\n", "(", "error: cannot process the message, retry", ")">>

\* what generateContent can do: throw, or answer with a response whose text
\* is missing (hasText = FALSE), empty or not empty
ResponseTexts == {<<>>, <<"analogy", "\n", "function">>}
ExplainOutcomes ==
    {[kind |-> "throws", hasText |-> FALSE, text |-> <<>>],
     [kind |-> "response", hasText |-> FALSE, text |-> <<>>]}
        \cup {[kind |-> "response", hasText |-> TRUE, text |-> t] : t \in ResponseTexts}

\* JavaScript truthiness of response.text (a string or undefined)
Truthy(response) == response.hasText /\ response.text # <<>>

\* getComponentExplanation with a catch block that rethrows
getComponentExplanation_Rethrow(componentLabel, outcome) ==
    IF outcome.kind = "throws"
    THEN [status |-> "rejected", value |-> <<>>]
    ELSE [status |-> "resolved",
          value |-> IF Truthy(outcome) THEN outcome.text ELSE NO_EXPLANATION]

\* getComponentExplanation: how the promise settles for one service outcome
getComponentExplanation(componentLabel, outcome) ==
    IF outcome.kind = "throws"
    THEN [status |-> "resolved", value |-> LOAD_FAILED]
    ELSE [status |-> "resolved",
          value |-> IF Truthy(outcome) THEN outcome.text ELSE NO_EXPLANATION]

(***************************************************************************)
(* Chat input and transcript: components/InfoPanel.tsx                     *)
(***************************************************************************)
InputChars == {" ", "a"}
WhiteSpace == {" ", "\t", "\n"}

RECURSIVE SeqsUpTo(_, _)
SeqsUpTo(S, n) ==
    IF n = 0 THEN {<<>>}
    ELSE LET shorter == SeqsUpTo(S, n - 1)
         IN  shorter \cup {Append(s, c) : s \in {t \in shorter : Len(t) = n - 1}, c \in S}

\* the values the user can give the chat input
Inputs == SeqsUpTo(InputChars, MaxInputLen)

RECURSIVE TrimStart(_)
TrimStart(s) ==
    IF s # <<>> /\ Head(s) \in WhiteSpace THEN TrimStart(Tail(s)) ELSE s

RECURSIVE TrimEnd(_)
TrimEnd(s) ==
    IF s # <<>> /\ s[Len(s)] \in WhiteSpace THEN TrimEnd(SubSeq(s, 1, Len(s) - 1)) ELSE s

\* String.prototype.trim
Trim(s) == TrimEnd(TrimStart(s))

\* the chunks the service can yield; a chunk may carry no text
Chunks == {<<>>, <<"H", "e", "l">>, <<"l", "o">>}

RECURSIVE Concat(_)
Concat(chunks) ==
    IF chunks = <<>> THEN <<>> ELSE Head(chunks) \o Concat(Tail(chunks))

\* the line-39 guard of handleChatSubmit without the trim
SubmitRejected_NoTrim(input, chatting) == input = <<>> \/ chatting

\* handleChatSubmit's guard: !chatInput.trim() || isChatting
SubmitRejected(input, chatting) == Trim(input) = <<>> \/ chatting

\* handleChatSubmit without its setIsChatting(true)
ChattingOnAccept_Dropped(chatting) == chatting

\* setIsChatting(true) of an accepted submit
ChattingOnAccept(chatting) == TRUE

\* the input element's disabled attribute
InputDisabled == isChatting

\* the setMessages updater of onChunk: the last message, if it is the model's,
\* gets the accumulated response as its text
ApplyChunk(prev, fullResponse, chunk) ==
    IF prev[Len(prev)].role = "model"
    THEN [prev EXCEPT ![Len(prev)].text = fullResponse]
    ELSE prev

(***************************************************************************)
(* Initial state: module initialisation and the first render               *)
(***************************************************************************)
Init ==
    /\ allBlocks = ALL_BLOCKS
    /\ selectedBlock = NULL
    /\ explanation = <<>>
    /\ loading = FALSE
    /\ pending = {}
    /\ explainCalls = 0
    /\ settled = NULL
    /\ aiInstance = NULL
    /\ chatSession = NULL
    /\ chatInput = <<>>
    /\ messages = <<>>
    /\ isChatting = FALSE
    /\ inflight = {}
    /\ submitResult = "none"

chatVars == <<chatSession, chatInput, messages, isChatting, inflight, submitResult>>
explainVars == <<explanation, loading, pending, explainCalls, settled>>

\* getAI: the client is created on first use
getAI == [ai |-> "GoogleGenAI"]

(***************************************************************************)
(* Selection: App.handleBlockSelect / onClose, and InfoPanel's effect      *)
(***************************************************************************)
\* Click on a block.  setSelectedBlock with the block already selected does
\* not re-render; otherwise the [selectedBlock] effect runs: setLoading(true)
\* and one getComponentExplanation call for the block's label.
handleBlockSelect(block) ==
    /\ explainCalls < MaxExplainCalls
    /\ IF block = selectedBlock
       THEN UNCHANGED <<selectedBlock, explainVars, aiInstance>>
       ELSE /\ selectedBlock' = block
            /\ loading' = TRUE
            /\ aiInstance' = getAI
            /\ explainCalls' = explainCalls + 1
            /\ pending' = pending \cup {[id |-> explainCalls + 1, label |-> block.label]}
            /\ UNCHANGED <<explanation, settled>>
    /\ UNCHANGED <<allBlocks, chatVars>>

\* The panel's close button: setSelectedBlock(null).  The effect runs and
\* does nothing for a null selection.
onClose ==
    /\ selectedBlock # NULL
    /\ selectedBlock' = NULL
    /\ UNCHANGED <<allBlocks, explainVars, aiInstance, chatVars>>

\* One getComponentExplanation call settles: .then(setExplanation) runs if
\* it resolved, .finally(setLoading(false)) in either case.
ExplanationSettles(req, outcome) ==
    LET res == getComponentExplanation(req.label, outcome)
    IN  /\ req \in pending
        /\ pending' = pending \ {req}
        /\ explanation' = IF res.status = "resolved" THEN res.value ELSE explanation
        /\ loading' = FALSE
        /\ settled' = [id |-> req.id, label |-> req.label,
                       outcome |-> outcome, status |-> res.status]
        /\ UNCHANGED <<allBlocks, selectedBlock, explainCalls, aiInstance, chatVars>>

(***************************************************************************)
(* Chat: InfoPanel.handleChatSubmit and the service's sendChatMessage      *)
(***************************************************************************)
\* the chat session ai.chats.create returns
NewChat == [chat |-> "gemini-2.5-flash"]

\* onChange of the chat input; the form is rendered for a selected block and
\* the input is disabled while isChatting
onChange(value) ==
    /\ selectedBlock # NULL
    /\ ~InputDisabled
    /\ chatInput' = value
    /\ UNCHANGED <<allBlocks, selectedBlock, explainVars, aiInstance,
                   chatSession, messages, isChatting, inflight, submitResult>>

\* handleChatSubmit up to its await.  A rejected submit returns at once.  An
\* accepted one appends the user's message and the model's placeholder, and
\* calls sendChatMessage, which creates the chat session if there is none:
\* when no session results the call throws and the handler ends there,
\* otherwise the stream is requested and the handler waits for it.
\* The handler is taken to be callable whenever the form is rendered: the
\* disabled attributes of the input and the button are a second barrier in
\* front of the guard, not a replacement for it.
handleChatSubmit ==
    /\ selectedBlock # NULL
    /\ IF SubmitRejected(chatInput, isChatting)
       THEN /\ submitResult' = "returned"
            /\ UNCHANGED <<aiInstance, chatSession, chatInput, messages, isChatting, inflight>>
       ELSE LET userMsg == [role |-> "user", text |-> chatInput]
                modelMsg == [role |-> "model", text |-> <<>>, isStreaming |-> TRUE]
                appended == Append(Append(messages, userMsg), modelMsg)
            IN  /\ Len(messages) < 2 * MaxSends
                /\ messages' = appended
                /\ chatInput' = <<>>
                /\ isChatting' = ChattingOnAccept(isChatting)
                /\ \E created \in BOOLEAN :
                      /\ chatSession' = IF chatSession # NULL THEN chatSession
                                        ELSE IF created THEN NewChat ELSE NULL
                      /\ aiInstance' = IF chatSession = NULL THEN getAI ELSE aiInstance
                      /\ IF chatSession' = NULL
                         THEN /\ submitResult' = "threw"
                              /\ inflight' = inflight
                         ELSE /\ submitResult' = "awaiting"
                              /\ inflight' = inflight \cup
                                    {[owner |-> Len(appended), message |-> userMsg.text,
                                      fullResponse |-> <<>>, delivered |-> <<>>]}
    /\ UNCHANGED <<allBlocks, selectedBlock, explainVars>>

\* The stream of send s yields one chunk; onChunk runs when the chunk has text.
StreamChunk(s, chunk) ==
    LET full == s.fullResponse \o chunk
        next == [s EXCEPT !.delivered = Append(@, chunk),
                          !.fullResponse = IF chunk # <<>> THEN full ELSE @]
    IN  /\ s \in inflight
        /\ Len(s.delivered) < MaxChunks
        /\ inflight' = (inflight \ {s}) \cup {next}
        /\ messages' = IF chunk # <<>> THEN ApplyChunk(messages, full, chunk) ELSE messages
        /\ UNCHANGED <<allBlocks, selectedBlock, explainVars, aiInstance,
                       chatSession, chatInput, isChatting, submitResult>>

\* The request or the stream of send s throws: the catch block passes the
\* error notice to onChunk, sendChatMessage returns and the handler resumes
\* with setIsChatting(false).
StreamFails(s) ==
    LET full == s.fullResponse \o CHAT_ERROR_NOTICE
    IN  /\ s \in inflight
        /\ inflight' = inflight \ {s}
        /\ messages' = ApplyChunk(messages, full, CHAT_ERROR_NOTICE)
        /\ isChatting' = FALSE
        /\ submitResult' = "completed"
        /\ UNCHANGED <<allBlocks, selectedBlock, explainVars, aiInstance,
                       chatSession, chatInput>>

\* The stream of send s ends: sendChatMessage returns and the handler resumes
\* with setIsChatting(false).
StreamCompletes(s) ==
    /\ s \in inflight
    /\ inflight' = inflight \ {s}
    /\ isChatting' = FALSE
    /\ submitResult' = "completed"
    /\ UNCHANGED <<allBlocks, selectedBlock, explainVars, aiInstance,
                   chatSession, chatInput, messages>>

Next ==
    \/ \E block \in Clickable : handleBlockSelect(block)
    \/ onClose
    \/ \E req \in pending, outcome \in ExplainOutcomes : ExplanationSettles(req, outcome)
    \/ \E value \in Inputs : onChange(value)
    \/ handleChatSubmit
    \/ \E s \in inflight, chunk \in Chunks : StreamChunk(s, chunk)
    \/ \E s \in inflight : StreamFails(s)
    \/ \E s \in inflight : StreamCompletes(s)

Spec == Init /\ [][Next]_vars

(***************************************************************************)
(* Properties                                                              *)
(***************************************************************************)
\* whether the text is empty or made of white space only
Blank(text) == \A i \in DOMAIN text : text[i] \in WhiteSpace

\* the trailing message of a transcript
Trailing(transcript) == transcript[Len(transcript)]

\* C1: once the Selection has been cleared, the explanation text and the chat
\* transcript of the cleared block are gone: whenever no block is selected
\* the transcript is empty and no explanation is held, so that the next
\* selection starts from an empty transcript.
C1_ClearDiscards ==
    selectedBlock = NULL => (messages = <<>> /\ explanation = <<>>)

\* C2: a step that changes the Selection from one block to a different block
\* leaves an empty transcript: nothing sent or received under the first
\* block is part of the second block's transcript.
C2_SwitchResetsTranscript ==
    [][(selectedBlock # NULL /\ selectedBlock' # NULL /\ selectedBlock' # selectedBlock)
          => messages' = <<>>]_vars

\* C3: when the stream of a send completes, the trailing model message has
\* as text the concatenation of the delivered chunks in arrival order and
\* its streaming flag is false.
C3_CompletedStream ==
    [][\A s \in inflight :
          StreamCompletes(s) =>
              /\ Trailing(messages').role = "model"
              /\ Trailing(messages').text = Concat(s.delivered)
              /\ Trailing(messages').isStreaming = FALSE]_vars

\* C4: when the stream of a send fails after k >= 0 chunks, the trailing
\* model message ends as the text of those k chunks followed by the error
\* notice, and its streaming flag is false.
C4_FailedStream ==
    [][\A s \in inflight :
          StreamFails(s) =>
              /\ Trailing(messages').role = "model"
              /\ Trailing(messages').text = Concat(s.delivered) \o CHAT_ERROR_NOTICE
              /\ Trailing(messages').isStreaming = FALSE]_vars

C6_BlankSubmitNoOp ==
    [][(handleChatSubmit /\ Blank(chatInput))
          => UNCHANGED <<messages, isChatting, chatSession, aiInstance, inflight, chatInput>>]_vars

\* C6 witness: a white-space-only input has been submitted while idle
C6_Witness ==
    /\ submitResult = "returned"
    /\ chatInput # <<>>
    /\ Blank(chatInput)
    /\ ~isChatting

\* C7: the identities of the full block sequence are pairwise distinct, an
\* encoder block and a decoder block never share one, and the sequence is
\* the one built at module initialisation.
C7_IdentitiesDistinct ==
    /\ \A i, j \in DOMAIN allBlocks : i # j => allBlocks[i].id # allBlocks[j].id
    /\ \A i \in DOMAIN ENCODER_BLOCKS, j \in DOMAIN DECODER_BLOCKS :
          ENCODER_BLOCKS[i].id # DECODER_BLOCKS[j].id
    /\ allBlocks = ENCODER_BLOCKS \o DECODER_BLOCKS
    /\ Len(allBlocks) = Len(ENCODER_BLOCKS) + Len(DECODER_BLOCKS)

\* C7 witness: a block was selected and cleared, an explanation has settled
\* and a chat send has completed
C7_Witness ==
    /\ selectedBlock = NULL
    /\ settled # NULL
    /\ submitResult = "completed"
    /\ Len(messages) > 0
    /\ Len(allBlocks) > Len(ENCODER_BLOCKS)

\* C8: an accepted send returns the chat to idle whatever the service does:
\* once no send is waiting for its stream any more, the in-flight flag is
\* false.
C8_SendReturnsToIdle ==
    inflight = {} => ~isChatting

\* C9: whenever a block is selected and the panel is not loading, the
\* explanation on display is the response to the request made for the
\* current selection, which is the latest request.
C9_NoStaleExplanation ==
    (selectedBlock # NULL /\ ~loading) =>
        (settled # NULL /\ settled.id = explainCalls)

\* C10: at most one send is in flight; while one is, the in-flight flag is
\* set, the trailing message is the model message that send appended and
\* carries that send's accumulated text; the transcript alternates user and
\* model messages.
C10_SingleFlight ==
    /\ Cardinality(inflight) <= 1
    /\ \A s \in inflight :
          /\ isChatting
          /\ s.owner = Len(messages)
          /\ Trailing(messages).role = "model"
          /\ Trailing(messages).text = s.fullResponse
    /\ \A i \in DOMAIN messages :
          messages[i].role = IF i % 2 = 1 THEN "user" ELSE "model"

\* C10 witness: a submit was rejected while a send was streaming
C10_Witness ==
    /\ submitResult = "returned"
    /\ isChatting
    /\ \E s \in inflight : Len(s.delivered) > 0 /\ s.fullResponse # <<>>
    /\ Len(messages) = 2 * MaxSends

\* C11: whenever a block is selected and the request made for it, which is
\* the latest request, has not settled yet, the loading flag is true: the
\* completion of a request made for an earlier selection does not turn it off.
C11_LoadingWhileOutstanding ==
    (selectedBlock # NULL /\ \E req \in pending : req.id = explainCalls) => loading

====
